---- MODULE Spec2Model ----
(***************************************************************************)
(* acbrun: a wrapper around runc that loads an image archive into a        *)
(* working directory and runs a command in it.                             *)
(*                                                                         *)
(* Part 1 models the archive codec (ExtractTarGz) on a small file system.  *)
(* Part 2 models one invocation of main() after another against a host     *)
(* that holds the working directories and the runtime's container table.   *)
(***************************************************************************)
EXTENDS Integers, Sequences, FiniteSets, TLC

VARIABLES
    \* ---- the extraction under study (specification SpecExtract) ----
    xEntries,   \* the entries of the tar stream, in stream order
    xPos,       \* index of the next entry tarReader.Next() returns
    xSt,        \* [fs, hardLinks, err]: destination tree, deferred links, error
    xPc,        \* "read" | "link" | "done" | "created" | "reextracted"
    xOut,       \* what CreateTarGz made of the extracted tree, and its re-extraction
    cfg,        \* the runtime configuration under study (specification SpecConfig)
    \* ---- the host and the invocations (specification Spec) ----
    dirs,       \* working directories: name -> [top, root] or NoDir
    ct,         \* the runtime's status of the named container
    inv,        \* the invocation in progress (or the last one)
    hist,       \* summaries of the invocations that ended before inv began
    envSteps,   \* how many caller/environment steps have happened
    other       \* a second process of the program, while it is not scheduled

xVars == <<xEntries, xPos, xSt, xPc, xOut, cfg>>
mVars == <<dirs, ct, inv, hist, envSteps, other>>
vars == <<xEntries, xPos, xSt, xPc, xOut, cfg, dirs, ct, inv, hist, envSteps, other>>

(***************************************************************************)
(* Bounds of the model.                                                    *)
(***************************************************************************)
MaxEntries == 3      \* longest tar stream SpecExtract draws
MaxInv == 2          \* invocations of main() in one behaviour of Spec
MaxEnv == 2          \* caller/environment steps in one behaviour of Spec
MaxLayers == 2       \* layers of the manifest SpecLayers draws
MaxLayerEntries == 2 \* longest layer stream SpecLayers draws

(***************************************************************************)
(* Part 1.  A directory tree.                                              *)
(*                                                                         *)
(* node maps each existing path (relative to the tree's root) to its node; *)
(* data maps an inode number to the bytes it holds.  Two paths are hard    *)
(* links of one file exactly when their nodes carry the same inode.        *)
(***************************************************************************)
EmptyFn == [x \in {} |-> x]

EmptyFS == [node |-> EmptyFn, data |-> << >>]

Exists(fs, p) == p \in DOMAIN fs.node

DirNode == [t |-> "dir", ino |-> 0, target |-> ""]

\* p with its symbolic links followed (open(2) without O_NOFOLLOW): the path
\* the open acts on, or "ELOOP" after too many levels.
RECURSIVE Follow(_, _, _)
Follow(fs, p, depth) ==
    IF ~Exists(fs, p) THEN p
    ELSE IF fs.node[p].t # "sym" THEN p
    ELSE IF depth = 0 THEN "ELOOP"
    ELSE Follow(fs, fs.node[p].target, depth - 1)

\* os.Mkdir: fails with EEXIST when the path exists, whatever it is; "."
\* is the tree's root, which exists.
Mkdir(fs, p) ==
    IF p = "." \/ Exists(fs, p) THEN [err |-> "EEXIST", fs |-> fs]
    ELSE [err |-> "", fs |-> [fs EXCEPT !.node = (p :> DirNode) @@ fs.node]]

\* os.OpenFile(O_RDWR|O_CREATE|O_TRUNC) followed by io.Copy of content: the
\* open follows symbolic links, truncates an existing file in place (its
\* inode, and so every hard link of it, gets the new bytes) and creates a
\* missing one.
WriteFile(fs, p, content) ==
    LET q == Follow(fs, p, Cardinality(DOMAIN fs.node)) IN
    IF q = "ELOOP" THEN [err |-> "ELOOP", fs |-> fs]
    ELSE IF ~Exists(fs, q)
    THEN LET i == Len(fs.data) + 1 IN
         [err |-> "",
          fs |-> [node |-> (q :> [t |-> "file", ino |-> i, target |-> ""]) @@ fs.node,
                  data |-> Append(fs.data, content)]]
    ELSE IF fs.node[q].t = "dir" THEN [err |-> "EISDIR", fs |-> fs]
    ELSE [err |-> "", fs |-> [fs EXCEPT !.data[fs.node[q].ino] = content]]

\* os.Symlink(target, p): fails with EEXIST when p exists; the target need
\* not exist.
Symlink(fs, target, p) ==
    IF Exists(fs, p) THEN [err |-> "EEXIST", fs |-> fs]
    ELSE LET i == Len(fs.data) + 1 IN
         [err |-> "",
          fs |-> [node |-> (p :> [t |-> "sym", ino |-> i, target |-> target]) @@ fs.node,
                  data |-> Append(fs.data, "")]]

\* os.Link(old, new): link(2) does not follow old; it fails when old is
\* missing or a directory, and when new exists.
Link(fs, old, new) ==
    IF ~Exists(fs, old) THEN [err |-> "ENOENT", fs |-> fs]
    ELSE IF fs.node[old].t = "dir" THEN [err |-> "EPERM", fs |-> fs]
    ELSE IF Exists(fs, new) THEN [err |-> "EEXIST", fs |-> fs]
    ELSE [err |-> "", fs |-> [fs EXCEPT !.node = (new :> fs.node[old]) @@ fs.node]]

\* os.Rename(old, new) within the tree: new, if it exists, is replaced.
Rename(fs, old, new) ==
    IF ~Exists(fs, old) THEN [err |-> "ENOENT", fs |-> fs]
    ELSE [err |-> "",
          fs |-> [fs EXCEPT !.node =
                    (new :> fs.node[old]) @@
                    [q \in DOMAIN fs.node \ {old, new} |-> fs.node[q]]]]

\* What a path reads as: the bytes of the file it names (through symbolic
\* links), or "" when it names no file.
ReadFile(fs, p) ==
    LET q == Follow(fs, p, Cardinality(DOMAIN fs.node)) IN
    IF q # "ELOOP" /\ Exists(fs, q) /\ fs.node[q].t = "file"
    THEN fs.data[fs.node[q].ino] ELSE ""

(***************************************************************************)
(* ExtractTarGz.  A tar header is [Typeflag, Name, Linkname, Content].     *)
(* The state of one extraction is [fs, hardLinks, err]: hardLinks is the   *)
(* map from link path to target path that the loop fills and the final     *)
(* pass resolves.                                                          *)
(***************************************************************************)
Header(tf, name, linkname, content) ==
    [Typeflag |-> tf, Name |-> name, Linkname |-> linkname, Content |-> content]

ExtractStart(fs) == [fs |-> fs, hardLinks |-> EmptyFn, err |-> ""]

\* A variant of the Link case that links at once instead of deferring.
ExtractLinkNow(st, header) ==
    LET r == Link(st.fs, header.Linkname, header.Name) IN
    [st EXCEPT !.fs = r.fs, !.err = r.err]

\* case tar.TypeLink: record the pair; a later entry of the same name
\* replaces the earlier one in the map.
ExtractLink(st, header) ==
    [st EXCEPT !.hardLinks =
        (header.Name :> header.Linkname) @@
        [k \in DOMAIN st.hardLinks \ {header.Name} |-> st.hardLinks[k]]]

\* The body of the loop for one header.
ExtractEntry(st, header) ==
    CASE header.Typeflag = "Dir" ->
            LET r == Mkdir(st.fs, header.Name) IN
            IF r.err \in {"", "EEXIST"} THEN [st EXCEPT !.fs = r.fs]
            ELSE [st EXCEPT !.err = r.err]
      [] header.Typeflag = "Reg" ->
            LET r == WriteFile(st.fs, header.Name, header.Content) IN
            [st EXCEPT !.fs = r.fs, !.err = r.err]
      [] header.Typeflag = "Link" -> ExtractLink(st, header)
      [] header.Typeflag = "Symlink" ->
            LET r == Symlink(st.fs, header.Linkname, header.Name) IN
            [st EXCEPT !.fs = r.fs, !.err = r.err]
      [] OTHER -> [st EXCEPT !.err = "unknown type"]

\* One iteration of the final pass: os.Link(v, k) for the pair of key k.
ResolveLink(st, k) ==
    LET r == Link(st.fs, st.hardLinks[k], k) IN
    [fs |-> r.fs,
     hardLinks |-> [j \in DOMAIN st.hardLinks \ {k} |-> st.hardLinks[j]],
     err |-> r.err]

\* The loop over the stream, from its first header to EOF or the first error.
RECURSIVE ExtractEntries(_, _)
ExtractEntries(st, entries) ==
    IF entries = << >> \/ st.err # "" THEN st
    ELSE ExtractEntries(ExtractEntry(st, Head(entries)), Tail(entries))

\* The final pass in the order ord of the map's keys, to its end or the
\* first error.
RECURSIVE ResolveLinks(_, _)
ResolveLinks(st, ord) ==
    IF ord = << >> \/ st.err # "" THEN st
    ELSE ResolveLinks(ResolveLink(st, Head(ord)), Tail(ord))

\* The orders in which a range over a map with these keys may visit them.
Orders(keys) ==
    {o \in [1..Cardinality(keys) -> keys] : \A i, j \in DOMAIN o : i # j => o[i] # o[j]}

\* A gzip stream as the codec sees it: isGzip is whether gzip.NewReader
\* accepts it, entries the tar stream it decompresses to.
\* ExtractTarGz(stream, dst): every result the call can have, each as
\* [fs, err]; Go leaves the order of the final pass open.
ExtractTarGz(isGzip, entries, fs) ==
    IF ~isGzip THEN {[fs |-> fs, err |-> "gzip: invalid header"]}
    ELSE LET st == ExtractEntries(ExtractStart(fs), entries) IN
         IF st.err # "" THEN {[fs |-> st.fs, err |-> st.err]}
         ELSE {[fs |-> r.fs, err |-> r.err] :
                  r \in {ResolveLinks(st, o) : o \in Orders(DOMAIN st.hardLinks)}}

(***************************************************************************)
(* CreateTarGz.                                                            *)
(***************************************************************************)
\* The path names of the model in the lexical (byte) order in which
\* filepath.WalkDir visits the entries of a directory.
PathOrder ==
    <<"L1", "L2", "a", "alpine-release", "b", "busybox", "c", "config.json",
      "etc", "extra", "late", "manifest.json", "pipe", "rootfs", "sh">>

\* A variant that does not read the target of a symbolic link.
WalkEntryNoReadlink(fs, p) ==
    CASE fs.node[p].t = "sym" -> Header("Symlink", p, "", "")
      [] fs.node[p].t = "file" -> Header("Reg", p, "", fs.data[fs.node[p].ino])
      [] OTHER -> Header("Dir", p, "", "")

\* What tar.FileInfoHeader and the callback make of the node at path p: a
\* symbolic link with its target, a regular file with its bytes (a hard
\* link is a regular file of its own), a directory.
WalkEntry(fs, p) ==
    CASE fs.node[p].t = "sym" -> Header("Symlink", p, fs.node[p].target, "")
      [] fs.node[p].t = "file" -> Header("Reg", p, "", fs.data[fs.node[p].ino])
      [] OTHER -> Header("Dir", p, "", "")

RECURSIVE WalkDir(_, _)
WalkDir(fs, order) ==
    IF order = << >> THEN << >>
    ELSE IF Exists(fs, Head(order))
         THEN <<WalkEntry(fs, Head(order))>> \o WalkDir(fs, Tail(order))
         ELSE WalkDir(fs, Tail(order))

\* CreateTarGz(srcDir, buf) on the tree fs of srcDir, whose entries the
\* walk visits in the order order, the root "." first.  present is whether
\* srcDir exists; failed and at say whether an I/O error stops the walk and
\* after how many entries.  The callback's error ends the walk, and the
\* value WalkDir returns is dropped: the result is always nil, with the
\* entries written so far in the archive.
CreateTarGz(present, fs, order, failed, at) ==
    LET all == <<Header("Dir", ".", "", "")>> \o WalkDir(fs, order)
    IN  IF ~present THEN [err |-> "", entries |-> << >>]
        ELSE IF failed /\ at < Len(all)
        THEN [err |-> "", entries |-> SubSeq(all, 1, at)]
        ELSE [err |-> "", entries |-> all]

\* cfg outside SpecConfig.
NoCfg == [pc |-> "idle", template |-> << >>, o |-> << >>, doc |-> << >>]

NoOut == [failed |-> FALSE, err |-> "", entries |-> << >>, fs |-> EmptyFS, err2 |-> ""]

(***************************************************************************)
(* SpecExtract: one call of ExtractTarGz into an empty directory, one loop *)
(* iteration at a time, on every tar stream of at most MaxEntries headers  *)
(* over the names and contents below.                                      *)
(***************************************************************************)
Names == {"a", "b", "c"}
Contents == {"x", "y"}

Headers ==
    {Header("Dir", n, "", "") : n \in Names}
    \cup {Header("Reg", n, "", c) : n \in Names, c \in Contents}
    \cup {Header("Link", n, l, "") : n \in Names, l \in Names}
    \cup {Header("Symlink", n, l, "") : n \in Names, l \in Names}
    \cup {Header("Fifo", n, "", "") : n \in {"a"}}

Streams == UNION {[1..n -> Headers] : n \in 0..MaxEntries}

\* header, err := tarReader.Next() returned a header: the switch runs on it.
XEntry ==
    /\ xPc = "read"
    /\ xPos <= Len(xEntries)
    /\ xSt' = ExtractEntry(xSt, xEntries[xPos])
    /\ xPc' = IF xSt'.err # "" THEN "done" ELSE "read"
    /\ xPos' = xPos + 1
    /\ UNCHANGED <<xEntries, xOut, cfg, mVars>>

\* tarReader.Next() returned io.EOF: break.
XEOF ==
    /\ xPc = "read"
    /\ xPos > Len(xEntries)
    /\ xPc' = "link"
    /\ UNCHANGED <<xEntries, xPos, xSt, xOut, cfg, mVars>>

\* for k, v := range hardLinks: one iteration, on any pair not yet visited.
XResolve ==
    /\ xPc = "link"
    /\ \E k \in DOMAIN xSt.hardLinks :
          /\ xSt' = ResolveLink(xSt, k)
          /\ xPc' = IF xSt'.err # "" THEN "done" ELSE "link"
    /\ UNCHANGED <<xEntries, xPos, xOut, cfg, mVars>>

\* return nil
XReturn ==
    /\ xPc = "link"
    /\ DOMAIN xSt.hardLinks = {}
    /\ xPc' = "done"
    /\ UNCHANGED <<xEntries, xPos, xSt, xOut, cfg, mVars>>

XIdle ==
    /\ xEntries = << >>
    /\ xPos = 1
    /\ xSt = ExtractStart(EmptyFS)
    /\ xPc = "idle"
    /\ xOut = NoOut
    /\ cfg = NoCfg


(***************************************************************************)
(* Part 2.  The files an invocation reads.                                 *)
(*                                                                         *)
(* The bytes of a file are named by a string; the tables below say what    *)
(* each names: whether it is a gzip stream, the tar stream it decompresses *)
(* to, the entries of that tar stream, and what a manifest parses to.      *)
(***************************************************************************)
Images == {"ok.tar.gz", "two.tar.gz", "nolayers.tar.gz", "badlayer.tar.gz", "badouter.tar.gz"}

IsGzip(c) ==
    c \in Images \cup {"l1.tar.gz", "l2.tar.gz", "bad.tar.gz"}

\* gzip.NewReader(r) read to its end: the decompressed bytes.
Gunzip(c) ==
    CASE c = "ok.tar.gz" -> "ok.tar"
      [] c = "two.tar.gz" -> "two.tar"
      [] c = "nolayers.tar.gz" -> "nolayers.tar"
      [] c = "badlayer.tar.gz" -> "badlayer.tar"
      [] c = "badouter.tar.gz" -> "badouter.tar"
      [] c = "l1.tar.gz" -> "l1.tar"
      [] c = "l2.tar.gz" -> "l2.tar"
      [] c = "bad.tar.gz" -> "bad.tar"
      [] OTHER -> ""

\* tar.NewReader over the decompressed bytes: the headers of the stream.
TarEntries(t) ==
    CASE t = "ok.tar" ->
            <<Header("Reg", "manifest.json", "", "manifest-1"),
              Header("Reg", "L1", "", "l1.tar.gz")>>
      [] t = "two.tar" ->
            <<Header("Reg", "manifest.json", "", "manifest-2"),
              Header("Reg", "L1", "", "l1.tar.gz")>>
      [] t = "nolayers.tar" ->
            <<Header("Reg", "manifest.json", "", "manifest-0")>>
      [] t = "badlayer.tar" ->
            <<Header("Reg", "manifest.json", "", "manifest-12"),
              Header("Reg", "L1", "", "bad.tar.gz"),
              Header("Reg", "L2", "", "l2.tar.gz")>>
      [] t = "badouter.tar" ->
            <<Header("Reg", "manifest.json", "", "manifest-1"),
              Header("Reg", "L1", "", "l1.tar.gz"),
              Header("Fifo", "pipe", "", "")>>
      [] t = "l1.tar" ->
            <<Header("Dir", "etc", "", ""),
              Header("Reg", "alpine-release", "", "3.20.3")>>
      [] t = "l2.tar" ->
            <<Header("Reg", "extra", "", "y")>>
      [] t = "bad.tar" ->
            <<Header("Reg", "alpine-release", "", "3.20.3"),
              Header("Link", "sh", "busybox", ""),
              Header("Fifo", "pipe", "", ""),
              Header("Reg", "late", "", "x")>>
      [] OTHER -> << >>

\* json.Unmarshal of the manifest's bytes into []Manifest.
ParseManifest(c) ==
    CASE c = "manifest-1" -> [err |-> "", result |-> <<[Layers |-> <<"L1">>]>>]
      [] c = "manifest-2" ->
            [err |-> "", result |-> <<[Layers |-> <<"L1">>], [Layers |-> <<"L1">>]>>]
      [] c = "manifest-0" -> [err |-> "", result |-> <<[Layers |-> << >>]>>]
      [] c = "manifest-12" -> [err |-> "", result |-> <<[Layers |-> <<"L1", "L2">>]>>]
      [] OTHER -> [err |-> "invalid character", result |-> << >>]

\* sha256 then hex: a different string for different bytes.
Sha256Hex(bytes) == "sha256-of-" \o bytes

\* GetTarSha256String(path): the digest of the decompressed bytes.
GetTarSha256String(path) ==
    IF ~IsGzip(path) THEN [err |-> "gzip: invalid header", sum |-> ""]
    ELSE [err |-> "", sum |-> Sha256Hex(Gunzip(path))]

SkipSentinel == "skip-sha256-validation"

\* The expected digests a caller passes with an image: the right one, a
\* wrong one, and the sentinel.
ExpectedFor(image) ==
    {Sha256Hex(Gunzip(image)), "sha256-of-something-else", SkipSentinel}

\* A variant without the check that the manifest has one element.
getLayersFirst(top) ==
    IF ~Exists(top, "manifest.json") \/ top.node["manifest.json"].t = "dir"
    THEN [err |-> "open", layers |-> << >>]
    ELSE LET m == ParseManifest(ReadFile(top, "manifest.json")) IN
         IF m.err # "" THEN [err |-> m.err, layers |-> << >>]
         ELSE IF Len(m.result) = 0 THEN [err |-> "panic", layers |-> << >>]
         ELSE [err |-> "", layers |-> m.result[1].Layers]

\* getLayers(manifestPath) on the working directory's tree top: "panic"
\* stands for the panic of line 60.
getLayers(top) ==
    IF ~Exists(top, "manifest.json") \/ top.node["manifest.json"].t = "dir"
    THEN [err |-> "open", layers |-> << >>]
    ELSE LET m == ParseManifest(ReadFile(top, "manifest.json")) IN
         IF m.err # "" THEN [err |-> m.err, layers |-> << >>]
         ELSE IF Len(m.result) # 1 THEN [err |-> "panic", layers |-> << >>]
         ELSE [err |-> "", layers |-> m.result[1].Layers]


(***************************************************************************)
(* The host: working directories and the runtime's container.              *)
(*                                                                         *)
(* dirs maps the path of each existing working directory to [top, root]:   *)
(* top is the tree of the directory itself, root the tree under its        *)
(* rootfs entry.  ct is what `runc state` knows of the container named     *)
(* ReName: "none" (no such container), "running" or "stopped".             *)
(***************************************************************************)
ReName == "c"

ExitCodes == {0, 1, 7}

EmptyDir == [top |-> EmptyFS, root |-> EmptyFS]

RemoveAll(d, path) == [k \in DOMAIN d \ {path} |-> d[k]]

\* What runc needs of its bundle (cmd.Dir): the directory, its config.json
\* and its rootfs.
BundleOk(d, path) ==
    /\ path \in DOMAIN d
    /\ Exists(d[path].top, "config.json")
    /\ Exists(d[path].top, "rootfs")

\* One entry of an invocation's log: what it did, and for a runtime
\* subprocess whether the caller's stdin and stdout/stderr were handed on.
Event(ev, stdin, stdout) == [ev |-> ev, stdin |-> stdin, stdout |-> stdout]

Did(i, ev) == \E k \in DOMAIN i.log : i.log[k].ev = ev

Count(i, ev) == Cardinality({k \in DOMAIN i.log : i.log[k].ev = ev})

\* ev1 never happens after ev2 in the log, and every ev2 has an ev1 before it.
Before(i, ev1, ev2) ==
    \A k \in DOMAIN i.log : i.log[k].ev = ev2 =>
        /\ \E j \in 1..(k - 1) : i.log[j].ev = ev1
        /\ \A j \in (k + 1)..Len(i.log) : i.log[j].ev # ev1

IdleInv ==
    [n |-> 0, pc |-> "idle", reentrant |-> FALSE, keep |-> FALSE,
     interactive |-> FALSE, output |-> "", name |-> "",
     image |-> "", expected |-> "", containerName |-> "", workingDir |-> "",
     needsCreation |-> FALSE, cleanup |-> FALSE, layers |-> << >>,
     extractErr |-> FALSE, stateStatus |-> "", execCode |-> -1,
     outputFailed |-> FALSE, status |-> -1, ctAtBegin |-> "none", log |-> << >>,
     walkErr |-> FALSE, outImage |-> << >>, diag |-> "", runCode |-> -1]

\* What hist keeps of an invocation that has ended.
Summary(i) ==
    [reentrant |-> i.reentrant, name |-> i.name, output |-> i.output,
     status |-> i.status, starts |-> Count(i, "run-detach"),
     execs |-> Count(i, "exec"), execCode |-> i.execCode,
     outputFailed |-> i.outputFailed]

MIdle ==
    /\ dirs = EmptyFn
    /\ ct = "none"
    /\ inv = IdleInv
    /\ hist = << >>
    /\ envSteps = 0
    /\ other = IdleInv

\* The option sets the invocations are drawn from: --reentrant with a
\* --name (and once without), or neither, with or without --keep.
Options ==
    {[reentrant |-> TRUE, name |-> ReName, keep |-> FALSE, interactive |-> x, output |-> o] :
        x \in BOOLEAN, o \in {"", "out.tar.gz"}}
    \cup {[reentrant |-> TRUE, name |-> "", keep |-> FALSE, interactive |-> FALSE, output |-> ""]}
    \cup {[reentrant |-> FALSE, name |-> "", keep |-> k, interactive |-> x, output |-> o] :
        k \in BOOLEAN, x \in BOOLEAN, o \in {"", "out.tar.gz"}}

\* acbrun.RandStringBytesMask(12): a name no other invocation has.
RandStringBytesMask(n) == "rnd" \o ToString(n)

\* How main ends.  os.Exit(code) runs no deferred call; a panic (status 2)
\* and a return from main (status 0) run them: RemoveAll(workingDir) when
\* it was deferred.
Exited(i, code) == [i EXCEPT !.pc = "exited", !.status = code]

Deferred(i, d) == IF i.cleanup THEN RemoveAll(d, i.workingDir) ELSE d

OsExit(i, code, d) ==
    /\ inv' = Exited(i, code)
    /\ dirs' = d

Panic(i, d) ==
    /\ inv' = Exited(i, 2)
    /\ dirs' = Deferred(i, d)

Return(i, d) ==
    /\ inv' = Exited(i, 0)
    /\ dirs' = Deferred(i, d)

Logged(i, ev) == [i EXCEPT !.log = Append(@, Event(ev, FALSE, FALSE))]

\* How many processes have started: the number of the latest.
Started == IF inv.n > other.n THEN inv.n ELSE other.n

\* A process starts: flags.ParseArgs, the usage checks and the container
\* name.  The invocation that ended before it goes to hist.
BeginWith(options, images) ==
    /\ inv.pc \in {"idle", "exited"}
    /\ Started < MaxInv
    /\ hist' = IF inv.pc = "exited" THEN Append(hist, Summary(inv)) ELSE hist
    /\ \E o \in options, image \in images :
         \E expected \in ExpectedFor(image) :
            LET i == [IdleInv EXCEPT
                        !.n = Started + 1, !.reentrant = o.reentrant, !.keep = o.keep,
                        !.interactive = o.interactive, !.output = o.output,
                        !.name = o.name, !.image = image, !.expected = expected,
                        !.ctAtBegin = ct]
            IN  IF o.name = ""
                THEN IF o.reentrant
                     THEN inv' = Exited(i, 1)
                     ELSE inv' = [i EXCEPT !.pc = "workdir",
                                           !.containerName = RandStringBytesMask(i.n)]
                ELSE inv' = [i EXCEPT !.pc = "workdir", !.containerName = o.name]
    /\ UNCHANGED <<dirs, ct, envSteps, other, xVars>>

Begin == BeginWith(Options, Images)

\* The working directory: the stable one of the name, made when os.Stat
\* does not find it, or a fresh temporary one, removed on the way out
\* unless --keep.
WorkDir ==
    /\ inv.pc = "workdir"
    /\ IF inv.reentrant
       THEN LET wd == "/tmp/acbrun-" \o inv.containerName
                needs == wd \notin DOMAIN dirs
                i == [inv EXCEPT !.workingDir = wd, !.needsCreation = needs,
                                 !.pc = IF needs THEN "digest" ELSE "config"]
            IN  IF needs
                THEN /\ dirs' = (wd :> EmptyDir) @@ dirs
                     /\ inv' = Logged(i, "mkdir")
                ELSE /\ dirs' = dirs
                     /\ inv' = i
       ELSE LET wd == "/tmp/acbrun-" \o inv.containerName \o "-" \o ToString(inv.n)
            IN  /\ dirs' = (wd :> EmptyDir) @@ dirs
                /\ inv' = Logged([inv EXCEPT !.workingDir = wd, !.needsCreation = TRUE,
                                             !.cleanup = ~inv.keep, !.pc = "digest"],
                                 "mkdir")
    /\ UNCHANGED <<ct, hist, envSteps, other, xVars>>

\* A variant of the comparison that never aborts.
DigestNeverExits(actual, expected) ==
    IF actual # expected THEN "warn" ELSE "ok"

\* The comparison of the digests: "exit" is os.Exit(1), "warn" the warning
\* the sentinel turns a mismatch into.
DigestVerdict(actual, expected) ==
    IF actual # expected
    THEN IF expected = SkipSentinel THEN "warn" ELSE "exit"
    ELSE "ok"

\* The digest of the image against the expected one.
Digest ==
    /\ inv.pc = "digest"
    /\ LET r == GetTarSha256String(inv.image)
           i == Logged(inv, "digest")
       IN  IF r.err # "" THEN Panic(i, dirs)
           ELSE IF DigestVerdict(r.sum, inv.expected) = "exit" THEN OsExit(i, 1, dirs)
           ELSE /\ inv' = [i EXCEPT !.pc = "extract"]
                /\ dirs' = dirs
    /\ UNCHANGED <<ct, hist, envSteps, other, xVars>>


\* The image is extracted into the working directory (the error
\* ExtractTarGz returns is dropped), the manifest read, rootfs made.
ExtractImage ==
    /\ inv.pc = "extract"
    /\ \E r \in ExtractTarGz(IsGzip(inv.image), TarEntries(Gunzip(inv.image)),
                             dirs[inv.workingDir].top) :
         LET d1 == [dirs EXCEPT ![inv.workingDir].top = r.fs]
             i1 == [Logged(inv, "extract-image") EXCEPT
                        !.extractErr = @ \/ r.err # ""]
             g  == getLayers(r.fs)
             mk == Mkdir(r.fs, "rootfs")
         IN  IF g.err # "" THEN Panic(i1, d1)
             ELSE IF Len(g.layers) = 0 THEN Panic(i1, d1)
             ELSE IF mk.err # "" THEN Panic(i1, d1)
             ELSE /\ dirs' = [d1 EXCEPT ![inv.workingDir].top = mk.fs]
                  /\ inv' = [Logged(i1, "mkdir-rootfs") EXCEPT
                                !.layers = g.layers, !.pc = "layers"]
    /\ UNCHANGED <<ct, hist, envSteps, other, xVars>>

\* One iteration of the loop over the layers: the layer's file is opened
\* and extracted into rootfs (the error ExtractTarGz returns is dropped).
ExtractLayer ==
    /\ inv.pc = "layers"
    /\ LET top == dirs[inv.workingDir].top
           layer == Head(inv.layers)
           c == ReadFile(top, layer)
       IN  IF ~Exists(top, layer) THEN Panic(inv, dirs)
           ELSE \E r \in ExtractTarGz(IsGzip(c), TarEntries(Gunzip(c)),
                                      dirs[inv.workingDir].root) :
                  /\ dirs' = [dirs EXCEPT ![inv.workingDir].root = r.fs]
                  /\ inv' = [Logged(inv, "extract-layer") EXCEPT
                                !.extractErr = @ \/ r.err # "",
                                !.layers = Tail(@),
                                !.pc = IF Tail(inv.layers) = << >> THEN "config"
                                       ELSE "layers"]
    /\ UNCHANGED <<ct, hist, envSteps, other, xVars>>

\* A variant that always runs the caller's command.
ProcessArgsCommand(reentrant) == "command"

\* process.args of the runtime configuration: the keep-alive loop with
\* --reentrant, the caller's command without.
ProcessArgs(reentrant) == IF reentrant THEN "keep-alive" ELSE "command"

\* config.json is written into the working directory.
WriteConfig ==
    /\ inv.pc = "config"
    /\ IF inv.workingDir \notin DOMAIN dirs THEN Panic(inv, dirs)
       ELSE LET w == WriteFile(dirs[inv.workingDir].top, "config.json",
                               ProcessArgs(inv.reentrant))
            IN  IF w.err # "" THEN Panic(inv, dirs)
                ELSE /\ dirs' = [dirs EXCEPT ![inv.workingDir].top = w.fs]
                     /\ inv' = [Logged(inv, "config") EXCEPT
                                   !.pc = IF inv.reentrant THEN "state" ELSE "run"]
    /\ UNCHANGED <<ct, hist, envSteps, other, xVars>>

\* `runc state name` as the controller sees it: its exit status, stdout
\* and stderr.  fault is a failure of the runtime itself.
RuncState(status, fault) ==
    IF fault THEN [exit |-> 1, stdout |-> "", stderr |-> "permission denied"]
    ELSE IF status = "none"
    THEN [exit |-> 1, stdout |-> "", stderr |-> "container does not exist"]
    ELSE [exit |-> 0, stdout |-> status, stderr |-> ""]

\* A variant with the comparison of the status inverted.
IsContainerRunningInverted(res) ==
    IF res.exit # 0
    THEN IF res.stderr = "container does not exist"
         THEN [running |-> FALSE, err |-> "", printed |-> ""]
         ELSE [running |-> FALSE, err |-> "exit status", printed |-> "runc: " \o res.stderr]
    ELSE IF res.stdout = "running" THEN [running |-> FALSE, err |-> "", printed |-> ""]
    ELSE [running |-> TRUE, err |-> "", printed |-> ""]

\* A variant that takes every failure of the query for "does not exist".
IsContainerRunningLenient(res) ==
    IF res.exit # 0 THEN [running |-> FALSE, err |-> "", printed |-> ""]
    ELSE IF res.stdout # "running" THEN [running |-> FALSE, err |-> "", printed |-> ""]
    ELSE [running |-> TRUE, err |-> "", printed |-> ""]

\* IsContainerRunning on the result of `runc state`: printed is what it
\* writes to os.Stderr.
IsContainerRunning(res) ==
    IF res.exit # 0
    THEN IF res.stderr = "container does not exist"
         THEN [running |-> FALSE, err |-> "", printed |-> ""]
         ELSE [running |-> FALSE, err |-> "exit status", printed |-> "runc: " \o res.stderr]
    ELSE IF res.stdout # "running" THEN [running |-> FALSE, err |-> "", printed |-> ""]
    ELSE [running |-> TRUE, err |-> "", printed |-> ""]

\* --reentrant: is the container running?
QueryState ==
    /\ inv.pc = "state"
    /\ \E fault \in BOOLEAN :
         LET res == RuncState(ct, fault)
             r == IsContainerRunning(res)
             i == [Logged(inv, "state") EXCEPT
                      !.stateStatus = IF res.exit = 0 THEN res.stdout ELSE res.stderr,
                      !.diag = r.printed]
         IN  IF r.err # "" THEN Panic(i, dirs)
             ELSE /\ inv' = [i EXCEPT !.pc = IF r.running THEN "exec" ELSE "run"]
                  /\ dirs' = dirs
    /\ UNCHANGED <<ct, hist, envSteps, other, xVars>>

\* A variant that hands stdout and stderr to every runc run.
RunStdioAttached(reentrant, interactive) ==
    [stdin |-> interactive, stdout |-> TRUE]

\* What runc run is given of the caller's streams: stdout and stderr
\* unless --reentrant, stdin when --interactive.
RunStdio(reentrant, interactive) ==
    [stdin |-> interactive, stdout |-> ~reentrant]

\* What runc exec is given of them: stdout and stderr always, stdin when
\* --interactive.
ExecStdio(interactive) ==
    [stdin |-> interactive, stdout |-> TRUE]

\* runc run: detached with --reentrant (stdout and stderr not handed on),
\* in the foreground without.  The runtime starts a container only from a
\* whole bundle and under a name it does not know.  runCode keeps the
\* exit code of the subprocess (1 for a detached start that failed); any
\* error of cmd.Run() panics.
Run ==
    /\ inv.pc = "run"
    /\ IF inv.reentrant
       THEN LET io == RunStdio(inv.reentrant, inv.interactive)
                i == [inv EXCEPT !.log = Append(@, Event("run-detach", io.stdin, io.stdout))]
            IN  \E failed \in BOOLEAN :
                  /\ ~failed => ct = "none" /\ BundleOk(dirs, inv.workingDir)
                  /\ IF ~failed
                     THEN /\ ct' = "running"
                          /\ inv' = [i EXCEPT !.pc = "exec", !.runCode = 0]
                          /\ dirs' = dirs
                     ELSE /\ ct' = ct
                          /\ Panic([i EXCEPT !.runCode = 1], dirs)
       ELSE LET io == RunStdio(inv.reentrant, inv.interactive)
                i == [inv EXCEPT !.log = Append(@, Event("run", io.stdin, io.stdout))]
            IN  \E code \in ExitCodes :
                  /\ code = 0 => BundleOk(dirs, inv.workingDir)
                  /\ ct' = ct
                  /\ IF code = 0
                     THEN /\ inv' = [i EXCEPT !.pc = "output", !.runCode = 0]
                          /\ dirs' = dirs
                     ELSE Panic([i EXCEPT !.runCode = code], dirs)
    /\ UNCHANGED <<hist, envSteps, other, xVars>>

\* A variant of the exec step's error handling that panics on every error.
ExecPanics(i, started, code, d) ==
    IF ~started \/ code # 0 THEN Panic(i, d)
    ELSE /\ inv' = [i EXCEPT !.pc = "output"]
         /\ dirs' = d

\* A variant of the exec step's error handling that goes on whatever the
\* exit code.
ExecIgnoresCode(i, started, code, d) ==
    IF ~started THEN Panic(i, d)
    ELSE /\ inv' = [i EXCEPT !.pc = "output"]
         /\ dirs' = d

\* The exec step's handling of cmd.Run()'s result: an ExitError's code is
\* passed to os.Exit, any other error panics, no error goes on.
ExecResult(i, started, code, d) ==
    IF ~started THEN Panic(i, d)
    ELSE IF code # 0 THEN OsExit(i, code, d)
    ELSE /\ inv' = [i EXCEPT !.pc = "output"]
         /\ dirs' = d

\* --reentrant: runc exec of the caller's command in the container.  The
\* subprocess starts only in an existing cmd.Dir, and runc exec exits
\* non-zero unless the container is running.
Exec ==
    /\ inv.pc = "exec"
    /\ \E failed \in BOOLEAN, code \in ExitCodes :
         /\ ~failed => inv.workingDir \in DOMAIN dirs
         /\ (~failed /\ code = 0) => ct = "running"
         /\ ExecResult([inv EXCEPT !.log = Append(@, Event("exec", ExecStdio(inv.interactive).stdin,
                                                            ExecStdio(inv.interactive).stdout)),
                                   !.execCode = IF failed THEN -1 ELSE code],
                       ~failed, code, dirs)
    /\ UNCHANGED <<ct, hist, envSteps, other, xVars>>

\* The bytes of a tar stream with these entries.
RECURSIVE TarString(_)
TarString(entries) ==
    IF entries = << >> THEN ""
    ELSE "[" \o Head(entries).Typeflag \o " " \o Head(entries).Name \o " "
             \o Head(entries).Linkname \o " " \o Head(entries).Content \o "]"
             \o TarString(Tail(entries))

\* The bytes gzip.NewWriter makes of a tar stream, and
\* GetTarSha256String of a file with such bytes: the digest of the tar
\* stream inside.
GzipOf(entries) == [gzip |-> TRUE, tar |-> entries]

CreatedTarSha256(bytes) == Sha256Hex(TarString(bytes.tar))

\* json.Marshal of the image config with its one diff-id, and of the
\* manifest with its one element.
ImageConfigJSON(diffID) ==
    "{architecture:amd64,os:linux,rootfs:{type:layers,diff_ids:[" \o diffID \o "]}}"

ManifestJSON(config, layer) ==
    "[{Config:" \o config \o ",Layers:[" \o layer \o "]}]"

\* The I/O errors a walk of CreateTarGz may meet: none, or one after the
\* first entry.
WalkFaults == {[failed |-> FALSE, at |-> 0], [failed |-> TRUE, at |-> 1]}

\* Whether the fault f cuts the walk short: the callback is handed an error
\* for a missing srcDir, or meets the I/O error before the last entry.
WalkCut(present, fs, order, f) ==
    \/ ~present
    \/ f.failed /\ f.at < Len(CreateTarGz(present, fs, order, FALSE, 0).entries)

\* The output image builder on the root filesystem root (present: whether
\* it exists), with the walk faults f1 of the layer and f2 of the image:
\* err is what makes main panic, entries the archive written to
\* opts.Output, walkErr whether an I/O error cut a walk short.
OutputImage(present, root, f1, f2) ==
    LET layer == CreateTarGz(present, root, PathOrder, f1.failed, f1.at)
        w1 == WriteFile(EmptyFS, "rootfs.tar.gz", GzipOf(layer.entries))
        sum == CreatedTarSha256(ReadFile(w1.fs, "rootfs.tar.gz"))
        rootFSName == sum \o ".tar.gz"
        w2 == Rename(w1.fs, "rootfs.tar.gz", rootFSName)
        imageConfigJSON == ImageConfigJSON("sha256:" \o sum)
        imageConfigName == "sha256:" \o Sha256Hex(imageConfigJSON)
        w3 == WriteFile(w2.fs, imageConfigName, imageConfigJSON)
        w4 == WriteFile(w3.fs, "manifest.json", ManifestJSON(imageConfigName, rootFSName))
        image == CreateTarGz(TRUE, w4.fs, <<rootFSName, "manifest.json", imageConfigName>>,
                             f2.failed, f2.at)
        cut1 == WalkCut(present, root, PathOrder, f1)
        cut2 == WalkCut(TRUE, w4.fs, <<rootFSName, "manifest.json", imageConfigName>>, f2)
    IN  IF layer.err # "" THEN [err |-> layer.err, entries |-> << >>, walkErr |-> TRUE]
        ELSE IF w2.err # "" THEN [err |-> w2.err, entries |-> << >>, walkErr |-> cut1]
        ELSE IF image.err # "" THEN [err |-> image.err, entries |-> << >>, walkErr |-> TRUE]
        ELSE [err |-> "", entries |-> image.entries,
              walkErr |-> cut1 \/ cut2]

\* After the command: return when no --output was given; else the output
\* image is built, and any failure on the way panics.
Finish ==
    /\ inv.pc = "output"
    /\ IF inv.output = "" THEN Return(inv, dirs)
       ELSE \E failed \in BOOLEAN :
              IF failed THEN Panic([inv EXCEPT !.outputFailed = TRUE], dirs)
              ELSE \E f1 \in WalkFaults, f2 \in WalkFaults :
                     LET present == /\ inv.workingDir \in DOMAIN dirs
                                    /\ Exists(dirs[inv.workingDir].top, "rootfs")
                         root == IF present THEN dirs[inv.workingDir].root ELSE EmptyFS
                         o == OutputImage(present, root, f1, f2)
                         i == [inv EXCEPT !.walkErr = o.walkErr]
                     IN  IF o.err # ""
                         THEN Panic([i EXCEPT !.outputFailed = TRUE], dirs)
                         ELSE Return([Logged(i, "output-image") EXCEPT
                                         !.outImage = o.entries], dirs)
    /\ UNCHANGED <<ct, hist, envSteps, other, xVars>>

(***************************************************************************)
(* The caller and the environment, between and around the invocations.    *)
(***************************************************************************)
\* The container's process dies.
EnvStop ==
    /\ envSteps < MaxEnv
    /\ ct = "running"
    /\ ct' = "stopped"
    /\ envSteps' = envSteps + 1
    /\ UNCHANGED <<dirs, inv, hist, other, xVars>>

\* The caller runs `runc delete --force name` between invocations.
EnvDelete ==
    /\ envSteps < MaxEnv
    /\ inv.pc \in {"idle", "exited"}
    /\ ct # "none"
    /\ ct' = "none"
    /\ envSteps' = envSteps + 1
    /\ UNCHANGED <<dirs, inv, hist, other, xVars>>

\* The caller removes the named working directory between invocations.
EnvRemoveDir ==
    /\ envSteps < MaxEnv
    /\ inv.pc \in {"idle", "exited"}
    /\ ("/tmp/acbrun-" \o ReName) \in DOMAIN dirs
    /\ dirs' = RemoveAll(dirs, "/tmp/acbrun-" \o ReName)
    /\ envSteps' = envSteps + 1
    /\ UNCHANGED <<ct, inv, hist, other, xVars>>

Init ==
    /\ MIdle
    /\ XIdle

Next ==
    \/ Begin
    \/ WorkDir
    \/ Digest
    \/ ExtractImage
    \/ ExtractLayer
    \/ WriteConfig
    \/ QueryState
    \/ Run
    \/ Exec
    \/ Finish
    \/ EnvStop
    \/ EnvDelete
    \/ EnvRemoveDir

Spec == Init /\ [][Next]_vars

(***************************************************************************)
(* The runtime configuration document: process.args, process.terminal,     *)
(* linux.namespaces and mounts of config.json.                             *)
(***************************************************************************)
\* The templates the synthesis is tried on: namespace and mount lists of
\* several lengths, with and without a network namespace already there.
Templates ==
    {[args |-> "sh", terminal |-> FALSE, namespaces |-> ns, mounts |-> ms] :
        ns \in {<< >>, <<[type |-> "pid"]>>, <<[type |-> "pid"], [type |-> "mount"]>>,
                <<[type |-> "network"], [type |-> "pid"]>>,
                <<[type |-> "pid"], [type |-> "ipc"], [type |-> "uts"], [type |-> "mount"]>>},
        ms \in {<< >>,
                <<[destination |-> "/proc", type |-> "proc", source |-> "proc",
                   options |-> << >>]>>,
                <<[destination |-> "/proc", type |-> "proc", source |-> "proc",
                   options |-> << >>],
                  [destination |-> "/local-dir", type |-> "tmpfs", source |-> "tmpfs",
                   options |-> <<"nosuid">>]>>}}

ConfigOptions ==
    [reentrant : BOOLEAN, hostNetwork : BOOLEAN, bindLocalDir : BOOLEAN,
     interactive : BOOLEAN]

\* A variant that sets the namespace list to the one network entry.
SetNetworkNamespaceOnly(doc) ==
    [doc EXCEPT !.namespaces = <<[type |-> "network"]>>]

\* sjson.Set(configJSON, "linux.namespaces.-1", {"type": "network"}): the
\* index -1 appends to the array.
AppendNetworkNamespace(doc) ==
    [doc EXCEPT !.namespaces = Append(@, [type |-> "network"])]

\* sjson.Set(configJSON, "mounts.-1", ...): the bind mount of the current
\* directory, appended.
AppendLocalDirMount(doc, actualWorkingDir) ==
    [doc EXCEPT !.mounts = Append(@, [destination |-> "/local-dir", type |-> "bind",
                                      source |-> actualWorkingDir,
                                      options |-> <<"rbind", "rprivate">>])]

\* The document main makes of the template: err is a panic on the way
\* (os.Getwd failing).
ConfigJSON(template, o, getwdFails) ==
    LET d1 == [template EXCEPT !.args = ProcessArgs(o.reentrant)]
        d2 == IF ~o.hostNetwork THEN AppendNetworkNamespace(d1) ELSE d1
        d3 == IF o.bindLocalDir THEN AppendLocalDirMount(d2, "/cwd") ELSE d2
        d4 == IF o.interactive /\ ~o.reentrant THEN [d3 EXCEPT !.terminal = TRUE] ELSE d3
    IN  IF o.bindLocalDir /\ getwdFails THEN [err |-> "getwd", doc |-> d2]
        ELSE [err |-> "", doc |-> d4]

CfgInit ==
    /\ cfg \in {[pc |-> "template", template |-> t, o |-> o, doc |-> << >>] :
                   t \in Templates, o \in ConfigOptions}
    /\ xEntries = << >>
    /\ xPos = 1
    /\ xSt = ExtractStart(EmptyFS)
    /\ xPc = "idle"
    /\ xOut = NoOut
    /\ MIdle

\* The document is made and written to config.json.
CfgWrite ==
    /\ cfg.pc = "template"
    /\ \E getwdFails \in BOOLEAN :
          LET r == ConfigJSON(cfg.template, cfg.o, getwdFails)
          IN  cfg' = IF r.err # "" THEN [cfg EXCEPT !.pc = "panic"]
                     ELSE [cfg EXCEPT !.pc = "written", !.doc = r.doc]
    /\ UNCHANGED <<xEntries, xPos, xSt, xPc, xOut, mVars>>

CfgNext == CfgWrite

SpecConfig == CfgInit /\ [][CfgNext]_vars

(***************************************************************************)
(* Two processes at once.  The scheduler takes the processor from the      *)
(* process in inv and gives it to the one in other, between any two steps  *)
(* of main: every interleaving of the steps of two invocations is a        *)
(* behaviour of SpecConc.  Both are run with --reentrant --name on a good  *)
(* image, and nothing else touches the host.                               *)
(***************************************************************************)
ConcOptions ==
    {[reentrant |-> TRUE, name |-> ReName, keep |-> FALSE, interactive |-> FALSE,
      output |-> ""]}

BeginConc == BeginWith(ConcOptions, {"ok.tar.gz"})

Switch ==
    /\ other.pc # "exited"
    /\ inv.pc # "idle"
    /\ inv' = other
    /\ other' = inv
    /\ UNCHANGED <<dirs, ct, hist, envSteps, xVars>>

NextConc ==
    \/ BeginConc
    \/ WorkDir
    \/ Digest
    \/ ExtractImage
    \/ ExtractLayer
    \/ WriteConfig
    \/ QueryState
    \/ Run
    \/ Exec
    \/ Finish
    \/ Switch

SpecConc == Init /\ [][NextConc]_vars

XInit ==
    /\ xEntries \in Streams
    /\ xPos = 1
    /\ xSt = ExtractStart(EmptyFS)
    /\ xPc = "read"
    /\ xOut = NoOut
    /\ cfg = NoCfg
    /\ MIdle

XNext == XEntry \/ XEOF \/ XResolve \/ XReturn

SpecExtract == XInit /\ [][XNext]_vars

(***************************************************************************)
(* SpecRound: ExtractTarGz into an empty directory, CreateTarGz of that    *)
(* directory, ExtractTarGz of the archive into a fresh empty directory.    *)
(***************************************************************************)
\* CreateTarGz(dir, buf) after an extraction that returned nil.
XCreate ==
    /\ xPc = "done"
    /\ xSt.err = ""
    /\ \E failed \in BOOLEAN, at \in 0..MaxEntries :
          /\ failed \/ at = 0
          /\ LET r == CreateTarGz(TRUE, xSt.fs, PathOrder, failed, at)
             IN  xOut' = [xOut EXCEPT !.failed = failed /\ at <= Cardinality(DOMAIN xSt.fs.node),
                                      !.err = r.err, !.entries = r.entries]
    /\ xPc' = "created"
    /\ UNCHANGED <<xEntries, xPos, xSt, cfg, mVars>>

\* ExtractTarGz of the archive made, into a fresh empty directory.
XReExtract ==
    /\ xPc = "created"
    /\ \E r \in ExtractTarGz(TRUE, xOut.entries, EmptyFS) :
          xOut' = [xOut EXCEPT !.fs = r.fs, !.err2 = r.err]
    /\ xPc' = "reextracted"
    /\ UNCHANGED <<xEntries, xPos, xSt, cfg, mVars>>

(***************************************************************************)
(* SpecLayers: the loop of main over the layers of the manifest, on every  *)
(* list of MaxLayers layers of at most MaxLayerEntries entries each: the   *)
(* layers are extracted one after the other into the one rootfs, and the   *)
(* error ExtractTarGz returns is dropped.  Here xEntries is the list of    *)
(* the layers' streams, xPos the index of the next layer, xSt.fs the       *)
(* rootfs and xSt.err whether an extraction has returned an error.         *)
(***************************************************************************)
LayerHeaders ==
    {Header("Dir", n, "", "") : n \in {"a", "b"}}
    \cup {Header("Reg", n, "", c) : n \in {"a", "b"}, c \in Contents}
    \cup {Header("Symlink", n, l, "") : n \in {"a", "b"}, l \in {"a", "b"}}

LayerStreams == UNION {[1..n -> LayerHeaders] : n \in 0..MaxLayerEntries}

LInit ==
    /\ xEntries \in [1..MaxLayers -> LayerStreams]
    /\ xPos = 1
    /\ xSt = ExtractStart(EmptyFS)
    /\ xPc = "layers"
    /\ xOut = NoOut
    /\ cfg = NoCfg
    /\ MIdle

\* for _, layer := range layers: one iteration.
XLayer ==
    /\ xPc = "layers"
    /\ xPos <= Len(xEntries)
    /\ \E r \in ExtractTarGz(TRUE, xEntries[xPos], xSt.fs) :
          xSt' = [xSt EXCEPT !.fs = r.fs,
                             !.err = IF r.err # "" THEN r.err ELSE @]
    /\ xPos' = xPos + 1
    /\ UNCHANGED <<xEntries, xPc, xOut, cfg, mVars>>

\* The loop has visited every layer.
XLoaded ==
    /\ xPc = "layers"
    /\ xPos > Len(xEntries)
    /\ xPc' = "loaded"
    /\ UNCHANGED <<xEntries, xPos, xSt, xOut, cfg, mVars>>

LNext == XLayer \/ XLoaded

SpecLayers == LInit /\ [][LNext]_vars

XNextRound == XEntry \/ XEOF \/ XResolve \/ XReturn \/ XCreate \/ XReExtract

SpecRound == XInit /\ [][XNextRound]_vars

(***************************************************************************)
(* The claims.                                                             *)
(***************************************************************************)
RuntimeInvoked(i) ==
    Did(i, "state") \/ Did(i, "run") \/ Did(i, "run-detach") \/ Did(i, "exec")

Extracted(i) == Did(i, "extract-image") \/ Did(i, "extract-layer")

\* The exit status of an invocation whose exec exited with execCode: that
\* code, or the panic of the output step that follows an exec of code 0.
ExecStatusOk(output, execCode, outputFailed, status) ==
    \/ status = execCode
    \/ execCode = 0 /\ output # "" /\ outputFailed /\ status = 2

\* Two --reentrant invocations of the same name, one after the other from
\* the clean host, nothing else touching the host, the container running
\* when the second begins and reported so to it.
C1_Scenario ==
    /\ inv.pc = "exited"
    /\ Len(hist) = 1
    /\ hist[1].reentrant /\ hist[1].name = ReName
    /\ inv.reentrant /\ inv.name = ReName
    /\ envSteps = 0
    /\ inv.ctAtBegin = "running"
    /\ inv.stateStatus = "running"

\* C1 as stated: in the scenario there is exactly one detached start and
\* one exec per invocation, and each invocation's exit status is the exit
\* code of its own exec.
C1_Original ==
    (C1_Scenario /\ hist[1].execCode # -1 /\ inv.execCode # -1) =>
        /\ hist[1].starts + Count(inv, "run-detach") = 1
        /\ hist[1].execs = 1 /\ Count(inv, "exec") = 1
        /\ hist[1].status = hist[1].execCode
        /\ inv.status = inv.execCode

\* C1, amended: in the scenario there is exactly one detached start and
\* one exec per invocation, and each invocation's exit status is the exit
\* code of its own exec, unless that code is 0 and the output image step
\* that follows it fails (status 2).
C1_OneStartTwoExecs ==
    C1_Scenario =>
        /\ hist[1].starts = 1 /\ Count(inv, "run-detach") = 0
        /\ hist[1].execs = 1 /\ Count(inv, "exec") = 1
        /\ hist[1].execCode # -1 =>
              ExecStatusOk(hist[1].output, hist[1].execCode, hist[1].outputFailed,
                           hist[1].status)
        /\ inv.execCode # -1 =>
              ExecStatusOk(inv.output, inv.execCode, inv.outputFailed, inv.status)

C1_Witness ==
    /\ C1_Scenario
    /\ hist[1].execCode = 0 /\ hist[1].status = 0
    /\ inv.execCode = 7 /\ inv.status = 7

\* C2 as stated: with --reentrant, once the exec has run to an exit code,
\* the exit status of the invocation is that code.
C2_Original ==
    (inv.reentrant /\ inv.pc = "exited" /\ inv.execCode # -1) =>
        inv.status = inv.execCode

\* C2, amended: with --reentrant, a non-zero exit code of the exec is the
\* exit status of the invocation (it is passed on, not turned into a
\* panic); after an exit code of 0 the invocation goes on and exits 0,
\* unless the output image step that follows fails (status 2).
C2_ExecCodePassedOn ==
    (inv.reentrant /\ inv.execCode # -1) =>
        /\ inv.execCode # 0 => inv.pc = "exited" /\ inv.status = inv.execCode
        /\ inv.execCode = 0 => inv.pc \in {"output", "exited"}
        /\ (inv.execCode = 0 /\ inv.pc = "exited") =>
              ExecStatusOk(inv.output, inv.execCode, inv.outputFailed, inv.status)

C2_Witness ==
    inv.reentrant /\ inv.pc = "exited" /\ inv.execCode = 7 /\ inv.status = 7

\* C3: with --reentrant, a state query that succeeds with a status other
\* than "running" aborts the invocation: no detached start and no exec.
C3_OtherStatusFatal ==
    (inv.reentrant /\ inv.stateStatus = "stopped") =>
        /\ inv.pc = "exited" /\ inv.status # 0
        /\ ~Did(inv, "run-detach")
        /\ ~Did(inv, "exec")

\* C4 as stated: with --reentrant, an invocation whose state query reports
\* that the container does not exist has made the working directory,
\* extracted the image and its layers and then started the container
\* detached, in that order, before any exec.  (Stated here for the
\* invocations that follow one that exited 0 and whose working directory
\* holds an extracted rootfs.)
C4_Original ==
    (/\ inv.reentrant /\ inv.stateStatus = "container does not exist" /\ inv.pc # "run"
     /\ Len(hist) = 1 /\ hist[1].reentrant /\ hist[1].status = 0
     /\ inv.workingDir \in DOMAIN dirs
     /\ Exists(dirs[inv.workingDir].top, "rootfs")
     /\ Exists(dirs[inv.workingDir].root, "alpine-release")) =>
        /\ Did(inv, "mkdir") /\ Did(inv, "extract-image") /\ Did(inv, "extract-layer")
        /\ Did(inv, "run-detach")
        /\ Before(inv, "mkdir", "extract-image")
        /\ Before(inv, "extract-layer", "run-detach")
        /\ Before(inv, "run-detach", "exec")

\* C4, amended: with --reentrant, an invocation whose state query reports
\* that the container does not exist starts it detached, with the
\* keep-alive process, before any exec; when it did not find the working
\* directory it has before that made the directory and then run the
\* extraction of the image and of its layers, in that order; when it found
\* the working directory it has made and extracted nothing.
C4_CreateThenStart ==
    (inv.reentrant /\ inv.stateStatus = "container does not exist") =>
        /\ inv.pc # "run" => Did(inv, "run-detach")
        /\ inv.pc = "run" =>
              ReadFile(dirs[inv.workingDir].top, "config.json") = "keep-alive"
        /\ Before(inv, "run-detach", "exec")
        /\ inv.needsCreation =>
              /\ Did(inv, "mkdir") /\ Did(inv, "extract-image") /\ Did(inv, "extract-layer")
              /\ Before(inv, "mkdir", "extract-image")
              /\ Before(inv, "extract-image", "extract-layer")
              /\ Before(inv, "extract-layer", "run-detach")
        /\ ~inv.needsCreation => ~Did(inv, "mkdir") /\ ~Extracted(inv)

C4_Witness ==
    /\ inv.reentrant /\ inv.stateStatus = "container does not exist"
    /\ inv.needsCreation
    /\ Did(inv, "run-detach") /\ Did(inv, "exec")

\* C5 as stated: with --reentrant, an invocation whose state query reports
\* "running" has made no working directory, extracted nothing and issues
\* no detached start.  (Stated here for the invocations that follow one
\* that exited 0.)
C5_Original ==
    (inv.reentrant /\ inv.stateStatus = "running"
        /\ Len(hist) = 1 /\ hist[1].reentrant /\ hist[1].status = 0) =>
        /\ ~Did(inv, "mkdir") /\ ~Extracted(inv)
        /\ ~Did(inv, "run-detach")

\* C5, amended: with --reentrant, an invocation that found the working
\* directory and whose state query reports "running" has made no
\* directory and extracted nothing; whether or not it found the directory,
\* it issues no detached start and goes on to the exec.
C5_RunningSkipsStart ==
    (inv.reentrant /\ inv.stateStatus = "running") =>
        /\ ~Did(inv, "run-detach")
        /\ inv.pc \in {"exec", "output", "exited"}
        /\ inv.pc # "exec" => Did(inv, "exec")
        /\ ~inv.needsCreation => ~Did(inv, "mkdir") /\ ~Extracted(inv)

C5_Witness ==
    /\ inv.reentrant /\ inv.stateStatus = "running"
    /\ ~inv.needsCreation
    /\ Did(inv, "exec")

\* Whether the expected digest an invocation was given differs from the
\* digest of the decompressed bytes of its image.
Mismatch(i) == i.expected # Sha256Hex(Gunzip(i.image))

\* C6 as stated: an invocation whose expected digest differs from the
\* image's and is not the sentinel exits non-zero, having extracted
\* nothing and invoked no runtime subprocess.  (Stated here for the
\* invocations that follow one that exited 0 and whose own exec has
\* exited with code 0.)
C6_Original ==
    (inv.pc = "exited" /\ inv.image # "" /\ Mismatch(inv)
        /\ inv.expected # SkipSentinel
        /\ Len(hist) = 1 /\ hist[1].status = 0
        /\ inv.execCode = 0 /\ inv.output = "") =>
        /\ inv.status # 0
        /\ ~Extracted(inv)
        /\ ~RuntimeInvoked(inv)

\* C6, amended: in an invocation that loads the image (any without
\* --reentrant, and with --reentrant one that did not find the working
\* directory), an expected digest that differs from the image's and is not
\* the sentinel makes it exit with status 1 at the comparison, before any
\* extraction and any runtime subprocess; with the sentinel the mismatch
\* does not abort and the extraction of the image follows.  (An invocation
\* that found its working directory compares no digest.)
C6_DigestMismatchExits ==
    (inv.needsCreation /\ Did(inv, "digest") /\ Mismatch(inv)) =>
        /\ inv.expected # SkipSentinel =>
              /\ inv.pc = "exited" /\ inv.status = 1
              /\ ~Extracted(inv)
              /\ ~RuntimeInvoked(inv)
        /\ inv.expected = SkipSentinel =>
              /\ inv.pc # "exited" \/ Did(inv, "extract-image")
              /\ inv.pc \notin {"digest", "extract"} => Did(inv, "extract-image")

C6_Witness ==
    /\ inv.needsCreation /\ Did(inv, "digest") /\ Mismatch(inv)
    /\ inv.expected # SkipSentinel
    /\ inv.pc = "exited" /\ inv.status = 1

\* What the manifest.json of an image parses to.
ManifestOf(image) ==
    LET es == TarEntries(Gunzip(image))
        ks == {k \in DOMAIN es : es[k].Name = "manifest.json"}
    IN  IF ks = {} THEN [err |-> "open", result |-> << >>]
        ELSE ParseManifest(es[CHOOSE k \in ks : \A j \in ks : j <= k].Content)

\* A manifest with a number of elements other than one, or whose one
\* element lists no layer.
BadManifest(image) ==
    /\ ManifestOf(image).err = ""
    /\ \/ Len(ManifestOf(image).result) # 1
       \/ Len(ManifestOf(image).result[1].Layers) = 0

\* C7 as stated: an invocation on an image with such a manifest fails,
\* having extracted no layer and invoked no runtime subprocess.  (Stated
\* here for the invocations that follow one that exited 0 and whose own
\* exec has exited with code 0.)
C7_Original ==
    (inv.pc = "exited" /\ inv.image # "" /\ BadManifest(inv.image)
        /\ Len(hist) = 1 /\ hist[1].status = 0
        /\ inv.execCode = 0 /\ inv.output = "") =>
        /\ inv.status # 0
        /\ ~Did(inv, "extract-layer")
        /\ ~RuntimeInvoked(inv)

\* C7, amended: an invocation that loads the image (any without
\* --reentrant, and with --reentrant one that did not find the working
\* directory) and reaches the manifest fails there on such a manifest
\* (panic, status 2): rootfs is not made, no layer is extracted and no
\* runtime subprocess is invoked.  (An invocation that found its working
\* directory reads no manifest.)
C7_BadManifestFails ==
    (inv.needsCreation /\ Did(inv, "extract-image") /\ BadManifest(inv.image)) =>
        /\ inv.pc = "exited" /\ inv.status = 2
        /\ ~Did(inv, "mkdir-rootfs")
        /\ ~Did(inv, "extract-layer")
        /\ ~RuntimeInvoked(inv)

C7_Witness ==
    /\ inv.needsCreation /\ Did(inv, "extract-image")
    /\ inv.image = "two.tar.gz"
    /\ inv.pc = "exited" /\ inv.status = 2

\* C9: once an extraction of the image or of a layer has failed, the
\* invocation is over with a failure: no later layer is extracted, no
\* runtime configuration written, no runtime subprocess invoked.
C9_ExtractFailureFatal ==
    inv.extractErr =>
        /\ inv.pc = "exited" /\ inv.status # 0
        /\ ~Did(inv, "config")
        /\ ~RuntimeInvoked(inv)

\* C10: when an invocation without --reentrant and without --keep has
\* exited, the working directory it made no longer exists.
C10_EphemeralRemoved ==
    (~inv.reentrant /\ ~inv.keep /\ inv.pc = "exited" /\ inv.workingDir # "") =>
        inv.workingDir \notin DOMAIN dirs

\* The layers of an image, as its manifest lists them: the bytes of each.
LayersOf(image) ==
    LET es == TarEntries(Gunzip(image))
        m  == ManifestOf(image)
        bytes(name) ==
            LET ks == {k \in DOMAIN es : es[k].Typeflag = "Reg" /\ es[k].Name = name}
            IN  IF ks = {} THEN "" ELSE es[CHOOSE k \in ks : \A j \in ks : j <= k].Content
    IN  IF m.err # "" \/ Len(m.result) # 1 THEN << >>
        ELSE [k \in DOMAIN m.result[1].Layers |-> bytes(m.result[1].Layers[k])]

\* The trees that the extraction of the layers, each without error, one
\* after the other, makes of the trees fss.
RECURSIVE ApplyLayers(_, _)
ApplyLayers(fss, layers) ==
    IF layers = << >> THEN fss
    ELSE ApplyLayers(
            UNION {{r.fs : r \in {x \in ExtractTarGz(IsGzip(Head(layers)),
                                                     TarEntries(Gunzip(Head(layers))), fs) :
                                     x.err = ""}} : fs \in fss},
            Tail(layers))

\* The root filesystems that are the complete extraction of an image.
FullRoots(image) ==
    IF LayersOf(image) = << >> THEN {} ELSE ApplyLayers({EmptyFS}, LayersOf(image))

\* The working directory wd holds a root filesystem completely extracted
\* from some image.
RootfsComplete(d, wd) ==
    /\ wd \in DOMAIN d
    /\ Exists(d[wd].top, "rootfs")
    /\ \E image \in Images : d[wd].root \in FullRoots(image)

\* C12 (the safety part): while two --reentrant invocations of one name
\* run at once, no detached start is issued against a root filesystem
\* that is missing or partly extracted, and at most one detached start is
\* issued for the name.
C12_ConcurrentStartSafe ==
    /\ \A p \in {inv, other} :
          Did(p, "run-detach") => RootfsComplete(dirs, p.workingDir)
    /\ Count(inv, "run-detach") + Count(other, "run-detach")
          + (IF hist = << >> THEN 0 ELSE hist[1].starts) <= 1

\* C13: when the output image builder has completed, the archive written
\* holds the root entry and three files: one layer blob named <d>.tar.gz
\* for the digest d of its own decompressed bytes, one manifest.json, one
\* config blob named after the SHA-256 of its bytes and holding the one
\* diff-id sha256:<d>; the manifest's one element names that config and
\* that layer.
C13_OutputImageShape ==
    (inv.pc = "exited" /\ Did(inv, "output-image")) =>
        LET es == inv.outImage IN
        /\ Len(es) = 4
        /\ es[1] = Header("Dir", ".", "", "")
        /\ \A k \in 2..4 : es[k].Typeflag = "Reg"
        /\ es[2].Name = CreatedTarSha256(es[2].Content) \o ".tar.gz"
        /\ es[3].Name = "manifest.json"
        /\ es[4].Name = "sha256:" \o Sha256Hex(es[4].Content)
        /\ es[4].Content = ImageConfigJSON("sha256:" \o CreatedTarSha256(es[2].Content))
        /\ es[3].Content = ManifestJSON(es[4].Name, es[2].Name)

\* C17: when an I/O error cuts a walk of CreateTarGz short, the output
\* image builder aborts: the invocation fails and no output image is
\* written.
C17_WalkErrorAborts ==
    inv.walkErr =>
        /\ inv.pc = "exited" /\ inv.status # 0
        /\ ~Did(inv, "output-image")
        /\ inv.outImage = << >>

\* C16: the document written keeps the template's namespace and mount
\* entries unchanged and in order at the head of its lists; after them
\* comes one network namespace entry exactly when --host-network is not
\* given, and one bind mount of the current directory to /local-dir
\* exactly when --bind-local-dir is given.
C16_ConfigAdditive ==
    cfg.pc = "written" =>
        LET t == cfg.template
            d == cfg.doc
            n == Len(t.namespaces)
            m == Len(t.mounts)
        IN  /\ Len(d.namespaces) = (IF cfg.o.hostNetwork THEN n ELSE n + 1)
            /\ SubSeq(d.namespaces, 1, n) = t.namespaces
            /\ ~cfg.o.hostNetwork => d.namespaces[n + 1] = [type |-> "network"]
            /\ Len(d.mounts) = (IF cfg.o.bindLocalDir THEN m + 1 ELSE m)
            /\ SubSeq(d.mounts, 1, m) = t.mounts
            /\ cfg.o.bindLocalDir =>
                  /\ d.mounts[m + 1].destination = "/local-dir"
                  /\ d.mounts[m + 1].type = "bind"
                  /\ d.mounts[m + 1].source = "/cwd"

C16_Witness ==
    /\ cfg.pc = "written"
    /\ ~cfg.o.hostNetwork /\ cfg.o.bindLocalDir
    /\ Len(cfg.template.namespaces) = 4 /\ Len(cfg.template.mounts) = 2
    /\ Len(cfg.doc.namespaces) = 5 /\ Len(cfg.doc.mounts) = 3

\* C18: with --reentrant, a state query that fails for another reason
\* than "container does not exist" ends the invocation with a failure:
\* the runtime's diagnostic is written to standard error, and no detached
\* start and no exec is issued.
C18_StateFailureFatal ==
    (inv.reentrant /\ Did(inv, "state") /\ inv.stateStatus = "permission denied") =>
        /\ inv.pc = "exited" /\ inv.status # 0
        /\ inv.diag = "runc: permission denied"
        /\ ~Did(inv, "run-detach")
        /\ ~Did(inv, "exec")

C18_Witness ==
    /\ inv.reentrant /\ Did(inv, "state") /\ inv.stateStatus = "permission denied"
    /\ inv.pc = "exited" /\ inv.status = 2
    /\ inv.ctAtBegin = "running"

\* C20: in a sequence of --reentrant invocations of one name, one after
\* the other and nothing else touching the host, a detached start is
\* issued only when the working directory holds a root filesystem
\* completely extracted from an image.
C20_StartOnlyOnCompleteRootfs ==
    (/\ envSteps = 0
     /\ inv.reentrant /\ inv.name = ReName
     /\ \A k \in DOMAIN hist : hist[k].reentrant /\ hist[k].name = ReName
     /\ Did(inv, "run-detach")) =>
        RootfsComplete(dirs, inv.workingDir)

\* C11: the caller's stdin is handed to a runtime subprocess only with
\* --interactive and only to a foreground step (runc run without
\* --reentrant, runc exec), never to a detached start.
C11_StdinForegroundOnly ==
    \A k \in DOMAIN inv.log :
        /\ inv.log[k].stdin => inv.interactive /\ inv.log[k].ev \in {"run", "exec"}
        /\ inv.log[k].ev = "run-detach" => ~inv.log[k].stdin

\* C19: a detached start is never handed the caller's stdout and stderr,
\* and every foreground step (runc run without --reentrant, runc exec) is.
C19_DetachedNoStdout ==
    \A k \in DOMAIN inv.log :
        /\ inv.log[k].ev = "run-detach" => ~inv.log[k].stdout
        /\ inv.log[k].ev \in {"run", "exec"} => inv.log[k].stdout

C19_Witness ==
    /\ Did(inv, "run-detach") /\ Did(inv, "exec")
    /\ Len(hist) = 1 /\ ~hist[1].reentrant /\ hist[1].status = 0

\* C22: the output image builder is entered (the output file written, or
\* its building failed) only when an output path was asked for and the
\* command step, runc run without --reentrant and runc exec with it, has
\* ended with exit code 0 before it; and an invocation whose run or exec
\* step exited non-zero ends with a non-zero status and has neither
\* written the output file nor entered the builder.
C22_OutputOnlyAfterSuccess ==
    /\ (Did(inv, "output-image") \/ inv.outputFailed \/ inv.outImage # << >>) =>
          /\ inv.output # ""
          /\ IF inv.reentrant
             THEN inv.execCode = 0 /\ Before(inv, "exec", "output-image")
             ELSE inv.runCode = 0 /\ Before(inv, "run", "output-image")
    /\ (inv.pc = "exited" /\ (inv.runCode > 0 \/ inv.execCode > 0)) =>
          /\ inv.status # 0
          /\ ~Did(inv, "output-image")
          /\ ~inv.outputFailed
          /\ inv.outImage = << >>

C22_Witness ==
    /\ inv.pc = "exited"
    /\ inv.reentrant
    /\ inv.output = "out.tar.gz"
    /\ Did(inv, "exec")
    /\ inv.execCode = 7
    /\ inv.status = 7
    /\ ~Did(inv, "output-image")
    /\ Len(hist) = 1 /\ hist[1].output = "out.tar.gz" /\ hist[1].status = 0
    /\ ~hist[1].reentrant /\ ~hist[1].outputFailed

(***************************************************************************)
(* The claim about ExtractTarGz alone (SpecExtract).                       *)
(***************************************************************************)
IsForwardLink(es, i) ==
    /\ es[i].Typeflag = "Link"
    /\ \E j \in (i + 1)..Len(es) :
          es[j].Typeflag = "Reg" /\ es[j].Name = es[i].Linkname

\* A stream in which nothing else can fail: supported entry types only, no
\* path named by two entries, every hard link's target a regular-file
\* entry of the stream.
WellFormed(es) ==
    /\ \A i \in DOMAIN es : es[i].Typeflag # "Fifo"
    /\ \A i, j \in DOMAIN es : i # j => es[i].Name # es[j].Name
    /\ \A i \in DOMAIN es : es[i].Typeflag = "Link" =>
          \E j \in DOMAIN es : es[j].Typeflag = "Reg" /\ es[j].Name = es[i].Linkname

\* Two paths of the tree that are one file.
SameFile(fs, p, q) ==
    /\ Exists(fs, p) /\ Exists(fs, q)
    /\ fs.node[p].t = "file" /\ fs.node[q].t = "file"
    /\ fs.node[p].ino = fs.node[q].ino

\* An archive of regular files, directories and symbolic links only, no
\* path named by two entries.
RoundWellFormed(es) ==
    /\ \A i \in DOMAIN es : es[i].Typeflag \in {"Reg", "Dir", "Symlink"}
    /\ \A i, j \in DOMAIN es : i # j => es[i].Name # es[j].Name

\* The tree fs holds the entry e: its path, with its type, and the bytes of
\* a regular file or the target of a symbolic link.
HoldsEntry(fs, e) ==
    /\ Exists(fs, e.Name)
    /\ CASE e.Typeflag = "Reg" ->
               /\ fs.node[e.Name].t = "file"
               /\ fs.data[fs.node[e.Name].ino] = e.Content
         [] e.Typeflag = "Symlink" ->
               /\ fs.node[e.Name].t = "sym"
               /\ fs.node[e.Name].target = e.Linkname
         [] OTHER -> fs.node[e.Name].t = "dir"

\* The entry of path p in a layer: its last regular-file or symbolic-link
\* entry of that name.
LayerEntryAt(layer, p) ==
    LET ks == {k \in DOMAIN layer :
                 layer[k].Name = p /\ layer[k].Typeflag \in {"Reg", "Symlink"}}
    IN  layer[CHOOSE k \in ks : \A j \in ks : j <= k]

LayerHas(layer, p) ==
    \E k \in DOMAIN layer : layer[k].Name = p /\ layer[k].Typeflag \in {"Reg", "Symlink"}

\* C15: after the layers have been loaded in the manifest's order, every
\* path that more than one layer holds as a regular file or symbolic
\* link is in the rootfs the entry (bytes or link target) of the last
\* such layer.
C15_LastLayerWins ==
    xPc = "loaded" =>
        \A p \in {"a", "b"} :
            LET ls == {l \in DOMAIN xEntries : LayerHas(xEntries[l], p)} IN
            Cardinality(ls) > 1 =>
                HoldsEntry(xSt.fs, LayerEntryAt(xEntries[CHOOSE l \in ls : \A m \in ls : m <= l], p))

\* C14: for a well-formed archive A of regular files, directories and
\* symbolic links, extract, create and extract again (no I/O error on the
\* way) end without error, and the second tree has exactly the paths of
\* A, each with A's type, bytes and link target.
C14_RoundTrip ==
    (xPc = "reextracted" /\ RoundWellFormed(xEntries) /\ ~xOut.failed) =>
        /\ xOut.err = "" /\ xOut.err2 = ""
        /\ DOMAIN xOut.fs.node = {xEntries[i].Name : i \in DOMAIN xEntries}
        /\ \A i \in DOMAIN xEntries : HoldsEntry(xOut.fs, xEntries[i])

C14_Witness ==
    /\ xPc = "reextracted" /\ ~xOut.failed
    /\ xEntries = <<Header("Reg", "c", "", "y"), Header("Symlink", "a", "c", ""),
                    Header("Dir", "b", "", "")>>
    /\ xOut.entries = <<Header("Dir", ".", "", ""), Header("Symlink", "a", "c", ""),
                        Header("Dir", "b", "", ""), Header("Reg", "c", "", "y")>>
    /\ HoldsEntry(xOut.fs, xEntries[1])

\* C21: the extraction of a stream ends, whatever the order in which its
\* final pass visits the deferred hard links, with the same verdict
\* (error or none) as in every other order, and when it succeeds with
\* the same tree.
C21_LinkOrderIrrelevant ==
    xPc = "done" =>
        \A r \in ExtractTarGz(TRUE, xEntries, EmptyFS) :
            /\ (r.err = "") = (xSt.err = "")
            /\ (r.err = "" => r.fs = xSt.fs)

\* C8: the extraction into an empty directory of a well-formed stream with
\* a hard link whose target is a regular file later in the stream ends
\* without error, with the link path and the target path one file that
\* holds the target entry's bytes; and as long as the stream is being
\* read, no two paths of the tree are one file (no link has been made).
C8_ForwardHardLink ==
    /\ (xPc = "done" /\ WellFormed(xEntries)) =>
          \A i \in DOMAIN xEntries : IsForwardLink(xEntries, i) =>
              /\ xSt.err = ""
              /\ SameFile(xSt.fs, xEntries[i].Name, xEntries[i].Linkname)
              /\ \E j \in (i + 1)..Len(xEntries) :
                    /\ xEntries[j].Name = xEntries[i].Linkname
                    /\ ReadFile(xSt.fs, xEntries[i].Name) = xEntries[j].Content
    /\ xPc = "read" =>
          \A p, q \in DOMAIN xSt.fs.node : p # q => ~SameFile(xSt.fs, p, q)

C8_Witness ==
    /\ xPc = "done"
    /\ xEntries = <<Header("Link", "a", "b", ""), Header("Dir", "c", "", ""),
                    Header("Reg", "b", "", "y")>>
    /\ xSt.err = ""
    /\ SameFile(xSt.fs, "a", "b")
    /\ ReadFile(xSt.fs, "a") = "y"

====
